---- MODULE Spec2Model ----
(***************************************************************************)
(* IP-Monitor-Dashboard: the SQLite schema (tables ips and ping_history)   *)
(* and the dashboard client static/main.js (fetchAndRender and its three   *)
(* triggers), as one state machine.                                        *)
(***************************************************************************)
EXTENDS Integers, Sequences, FiniteSets, TLC

\* ------------------------------------------------------------------ bounds
MaxReq == 2        \* fetchAndRender calls issued in one behaviour
MaxTicks == 2      \* 30-second intervals that elapse in one behaviour
MaxIpId == 3       \* rows ever inserted into ips (AUTOINCREMENT values used)
MaxHist == 2       \* rows ever inserted into ping_history
MaxSweeps == 1     \* sweeps run for callers other than the page

\* --------------------------------------------------------------- constants
NULL == "NULL"          \* SQL NULL / JSON null in a text column
None == {}              \* SQL NULL / JSON null in a numeric column
Some(x) == {x}          \* a numeric column holding x
Val(c) == CHOOSE x \in c : TRUE

Addrs == {"8.8.8.8", "1.1.1.1", "10.0.0.1"}
Pings == {12}           \* the latencies a successful probe reports

\* The two rows of the INSERT OR IGNORE statement, in VALUES order.
SampleRows ==
  << [ip |-> "8.8.8.8", name |-> "Google DNS", device_type |-> "other",
      importance |-> "important"],
     [ip |-> "1.1.1.1", name |-> "Cloudflare DNS", device_type |-> "other",
      importance |-> "important"] >>

SampleAddrs == {SampleRows[i].ip : i \in 1..Len(SampleRows)}

VARIABLES
  ips,            \* table ips: a set of rows
  ping_history,   \* table ping_history: a set of rows
  ipSeq,          \* sqlite_sequence value of ips (last AUTOINCREMENT id)
  histSeq,        \* sqlite_sequence value of ping_history
  sweeps,         \* sweeps run so far: the timestamp source
  op,             \* the last SQL statement run: its kind and its outcome
  pageOpen,       \* the dashboard page (window) exists
  loaded,         \* the window's load event has fired
  hasBody,        \* whether #dashboard-body exists (dashboardBody is not null)
  dashboardBody,  \* the rows (tr elements) of #dashboard-body
  btnRefresh,     \* whether #btn-refresh exists
  reqs,           \* the fetchAndRender calls, in the order they were made
  errors,         \* console.error calls made by the catch block
  elapsed         \* 30-second intervals elapsed since the script ran

dbvars == <<ips, ping_history, ipSeq, histSeq, sweeps, op>>
clientvars == <<pageOpen, loaded, hasBody, dashboardBody, btnRefresh, reqs, errors, elapsed>>
vars == <<ips, ping_history, ipSeq, histSeq, sweeps, op,
          pageOpen, loaded, hasBody, dashboardBody, btnRefresh, reqs, errors, elapsed>>

\* ------------------------------------------------------------ the schema

\* PRAGMA foreign_keys = ON: foreign key constraints are enforced.
foreign_keys == TRUE

Ids(rows) == {r.id : r \in rows}

\* ips.ip TEXT NOT NULL, without UNIQUE.
NotUniqueIpOk(rows, ip) == ip # NULL

\* ips.ip TEXT NOT NULL UNIQUE: whether a row with this address may be added.
UniqueIpOk(rows, ip) == ip # NULL /\ \A r \in rows : r.ip # ip

\* A new row of ips: the columns an INSERT does not name are NULL.
NewIp(id, ip, name, device_type, importance) ==
  [id |-> id, ip |-> ip, name |-> name, device_type |-> device_type,
   importance |-> importance, last_status |-> NULL, last_ping_ms |-> None,
   last_checked |-> None]

\* INSERT OR REPLACE of one row: a row that conflicts on ip is replaced.
InsertOrIgnoreReplacing(st, row) ==
  LET old == {r \in st.rows : r.ip = row.ip}
  IN  [rows |-> (st.rows \ old) \cup
                  {NewIp(st.seq + 1, row.ip, row.name, row.device_type, row.importance)},
       seq |-> st.seq + 1,
       ignored |-> st.ignored]

\* INSERT OR IGNORE of one row: a row that conflicts on ip is skipped and the
\* statement goes on; st is [rows, seq, ignored].
InsertOrIgnore(st, row) ==
  IF UniqueIpOk(st.rows, row.ip)
  THEN [rows |-> st.rows \cup
                   {NewIp(st.seq + 1, row.ip, row.name, row.device_type, row.importance)},
        seq |-> st.seq + 1,
        ignored |-> st.ignored]
  ELSE [st EXCEPT !.ignored = TRUE]

RECURSIVE InsertSamples(_, _)
InsertSamples(st, i) ==
  IF i > Len(SampleRows) THEN st
  ELSE InsertSamples(InsertOrIgnore(st, SampleRows[i]), i + 1)

\* The whole schema script on a database whose ips table holds rows and whose
\* AUTOINCREMENT counter is seq. CREATE TABLE IF NOT EXISTS changes no row.
SchemaScript(rows, seq) ==
  InsertSamples([rows |-> rows, seq |-> seq, ignored |-> FALSE], 1)

\* A foreign key with no ON DELETE CASCADE that is not enforced.
NoCascade(hist, id) == hist

\* FOREIGN KEY(ip_id) REFERENCES ips(id) ON DELETE CASCADE: the rows of
\* ping_history that stay when the ips row id is deleted.
CascadeDelete(hist, id) ==
  IF foreign_keys THEN {h \in hist : h.ip_id # id} ELSE hist

\* The NOT NULL constraints of ping_history alone.
HistoryInsertUnchecked(rows, ip_id, ts, status) ==
  ip_id # None /\ ts # None /\ status # NULL

\* Whether ping_history accepts a row: ip_id, ts and status are NOT NULL, and
\* ip_id REFERENCES ips(id). ip_id is None or Some(id).
HistoryInsertOk(rows, ip_id, ts, status) ==
  /\ ip_id # None /\ ts # None /\ status # NULL
  /\ foreign_keys => Val(ip_id) \in Ids(rows)

NewHistory(id, ip_id, ts, status, ping_ms) ==
  [id |-> id, ip_id |-> ip_id, ts |-> ts, status |-> status, ping_ms |-> ping_ms]

Missing(rows) == {a \in SampleAddrs : \A r \in rows : r.ip # a}

\* ------------------------------------------------- statements on the database

\* The schema script is run (again) on the database.
RunSchema ==
  /\ ipSeq + Cardinality(Missing(ips)) <= MaxIpId
  /\ LET st == SchemaScript(ips, ipSeq)
     IN  /\ ips' = st.rows
         /\ ipSeq' = st.seq
         /\ op' = [kind |-> "schema",
                   result |-> IF st.ignored THEN "ignored" ELSE "ok"]
  /\ UNCHANGED <<ping_history, histSeq, sweeps>>
  /\ UNCHANGED clientvars

\* Registration: INSERT INTO ips (ip) VALUES (?). A conflict on ip aborts the
\* statement with a constraint error.
CreateTarget(ip) ==
  /\ IF UniqueIpOk(ips, ip)
     THEN /\ ipSeq < MaxIpId
          /\ ips' = ips \cup {NewIp(ipSeq + 1, ip, NULL, NULL, NULL)}
          /\ ipSeq' = ipSeq + 1
          /\ op' = [kind |-> "create", result |-> "ok"]
     ELSE /\ UNCHANGED <<ips, ipSeq>>
          /\ op' = [kind |-> "create", result |-> "constraint"]
  /\ UNCHANGED <<ping_history, histSeq, sweeps>>
  /\ UNCHANGED clientvars

\* Removal: DELETE FROM ips WHERE id = ?.
DeleteTarget(id) ==
  /\ ips' = {r \in ips : r.id # id}
  /\ ping_history' = IF id \in Ids(ips) THEN CascadeDelete(ping_history, id)
                     ELSE ping_history
  /\ op' = [kind |-> "delete", result |-> "ok"]
  /\ UNCHANGED <<ipSeq, histSeq, sweeps>>
  /\ UNCHANGED clientvars

\* INSERT INTO ping_history (ip_id, ts, status, ping_ms) VALUES (?, ?, ?, ?).
AppendRecord(ip_id, status, ping_ms) ==
  /\ IF HistoryInsertOk(ips, ip_id, Some(sweeps), status)
     THEN /\ histSeq < MaxHist
          /\ ping_history' = ping_history \cup
               {NewHistory(histSeq + 1, Val(ip_id), sweeps, status, ping_ms)}
          /\ histSeq' = histSeq + 1
          /\ op' = [kind |-> "append", result |-> "ok"]
     ELSE /\ UNCHANGED <<ping_history, histSeq>>
          /\ op' = [kind |-> "append", result |-> "constraint"]
  /\ UNCHANGED <<ips, ipSeq, sweeps>>
  /\ UNCHANGED clientvars

\* ------------------------------------------------------- the sweep (server)

Outcomes == {"up", "down", "fail"}

\* The records of one target, and the n most recent of them.
RecordsOf(hist, id) == {h \in hist : h.ip_id = id}

Recent(hist, id, n) ==
  {h \in RecordsOf(hist, id) :
     Cardinality({g \in RecordsOf(hist, id) : g.id > h.id}) < n}

\* round(100 * up / n), ties away from zero; no value for no records.
WindowStats(records) ==
  LET n == Cardinality(records)
      up == Cardinality({h \in records : h.status = "up"})
  IN  IF n = 0 THEN None ELSE Some((200 * up + n) \div (2 * n))

TargetProjection(row, hist) ==
  [id |-> row.id, ip |-> row.ip, name |-> row.name,
   device_type |-> row.device_type, importance |-> row.importance,
   last_status |-> row.last_status, last_ping_ms |-> row.last_ping_ms,
   last5 |-> WindowStats(Recent(hist, row.id, 5)),
   last60 |-> WindowStats(Recent(hist, row.id, 60)),
   last_checked |-> row.last_checked]

\* The projections of all targets in Registry list order (by id).
RECURSIVE Projections(_, _)
Projections(rows, hist) ==
  IF rows = {} THEN << >>
  ELSE LET first == CHOOSE r \in rows : \A q \in rows : r.id <= q.id
       IN  <<TargetProjection(first, hist)>> \o Projections(rows \ {first}, hist)

\* The tables after a sweep in which target i's probe ends f[i]; "fail" is a
\* history append that failed, which leaves the target as it was.
SweepHistory(hist, seq, ts, f, ping) ==
  LET rec == {i \in DOMAIN f : f[i] # "fail"}
  IN  hist \cup
        {NewHistory(seq + Cardinality({j \in rec : j <= i}), i, ts, f[i],
                    IF f[i] = "up" THEN Some(ping) ELSE None) : i \in rec}

SweepIps(rows, ts, f, ping) ==
  {IF f[r.id] = "fail" THEN r
   ELSE [r EXCEPT !.last_status = f[r.id],
                  !.last_ping_ms = IF f[r.id] = "up" THEN Some(ping) ELSE None,
                  !.last_checked = Some(ts)] : r \in rows}

\* ------------------------------------------------------------ main.js

NoBody == [kind |-> "none", ips |-> << >>]

\* One tr element, from lines 13 to 41.
RenderRow(ip) ==
  [className |-> IF ip.last_status = "down" THEN "down" ELSE "up",
   href |-> ip.id,
   ip |-> ip.ip,
   name |-> IF ip.name = NULL THEN "-" ELSE ip.name,
   device_type |-> IF ip.device_type = NULL THEN "-" ELSE ip.device_type,
   importance |-> IF ip.importance = NULL THEN "-" ELSE ip.importance,
   status |-> IF ip.last_status = NULL THEN "-" ELSE ip.last_status,
   ping |-> IF ip.last_ping_ms = None THEN "-" ELSE "ms",
   pingValue |-> ip.last_ping_ms,
   class5 |-> IF ip.last5 = None \/ Val(ip.last5) < 95 THEN "bad" ELSE "good",
   text5 |-> ip.last5,
   class60 |-> IF ip.last60 = None \/ Val(ip.last60) < 95 THEN "bad" ELSE "good",
   text60 |-> ip.last60,
   checked |-> IF ip.last_checked = None THEN "-" ELSE "date",
   checkedValue |-> ip.last_checked]

RenderAll(list) == [i \in 1..Len(list) |-> RenderRow(list[i])]

\* data.ips || []
IpsOf(body) == IF body.kind = "json" THEN body.ips ELSE << >>

\* Lines 12 to 44 without line 11: the rows are appended to those shown.
RowsAppended(rows, list) == rows \o RenderAll(list)

\* The table after lines 11 to 44: emptied, then one row appended per element.
RowsRendered(rows, list) == RenderAll(list)

\* A catch block that empties the table.
RowsCleared(rows) == << >>

\* The table after the catch block, which only logs.
RowsAfterCatch(rows) == rows

\* fetchAndRender is called: line 7 issues the request.
Issue ==
  /\ Len(reqs) < MaxReq
  /\ reqs' = Append(reqs, [pc |-> "sent", body |-> NoBody, promise |-> "pending"])

InFlight == {r \in 1..Len(reqs) : reqs[r].pc \in {"sent", "responded", "parsing"}}

\* window load listener.
Load ==
  /\ pageOpen /\ ~loaded
  /\ loaded' = TRUE
  /\ Issue
  /\ UNCHANGED <<pageOpen, hasBody, dashboardBody, btnRefresh, errors, elapsed>>
  /\ UNCHANGED dbvars

\* click listener of #btn-refresh, registered only if the button exists.
Click ==
  /\ pageOpen /\ btnRefresh
  /\ Issue
  /\ UNCHANGED <<pageOpen, loaded, hasBody, dashboardBody, btnRefresh, errors, elapsed>>
  /\ UNCHANGED dbvars

\* A timer callback that skips the call while a request is in flight.
TimerTickSingleFlight ==
  /\ pageOpen /\ elapsed < MaxTicks
  /\ elapsed' = elapsed + 1
  /\ IF InFlight = {} THEN Issue ELSE UNCHANGED reqs
  /\ UNCHANGED <<pageOpen, loaded, hasBody, dashboardBody, btnRefresh, errors>>
  /\ UNCHANGED dbvars

\* setInterval(fetchAndRender, 30000): the callback of one elapsed interval.
TimerTick ==
  /\ pageOpen /\ elapsed < MaxTicks
  /\ elapsed' = elapsed + 1
  /\ Issue
  /\ UNCHANGED <<pageOpen, loaded, hasBody, dashboardBody, btnRefresh, errors>>
  /\ UNCHANGED dbvars

\* The page is closed: its timer, its listeners and its pending callbacks go.
ClosePage ==
  /\ pageOpen
  /\ pageOpen' = FALSE
  /\ UNCHANGED <<loaded, hasBody, dashboardBody, btnRefresh, reqs, errors, elapsed>>
  /\ UNCHANGED dbvars

\* An interval elapses with no page: no callback runs.
TimePasses ==
  /\ ~pageOpen /\ elapsed < MaxTicks
  /\ elapsed' = elapsed + 1
  /\ UNCHANGED <<pageOpen, loaded, hasBody, dashboardBody, btnRefresh, reqs, errors>>
  /\ UNCHANGED dbvars

\* runSweep: every target is probed, each outcome is appended to the history
\* and copied onto its target.
RunSweep(f, ping) ==
  /\ histSeq + Cardinality({i \in DOMAIN f : f[i] # "fail"}) <= MaxHist
  /\ ping_history' = SweepHistory(ping_history, histSeq, sweeps + 1, f, ping)
  /\ histSeq' = histSeq + Cardinality({i \in DOMAIN f : f[i] # "fail"})
  /\ ips' = SweepIps(ips, sweeps + 1, f, ping)
  /\ sweeps' = sweeps + 1
  /\ op' = [kind |-> "sweep", result |-> "ok"]
  /\ UNCHANGED ipSeq

\* POST /api/check_all from the page is served: a sweep runs and its
\* projections are the body.
ServerSweep(r, f, ping) ==
  /\ reqs[r].pc = "sent"
  /\ RunSweep(f, ping)
  /\ reqs' = [reqs EXCEPT ![r].pc = "responded",
                          ![r].body = [kind |-> "json",
                                       ips |-> Projections(ips', ping_history')]]
  /\ UNCHANGED <<pageOpen, loaded, hasBody, dashboardBody, btnRefresh, errors, elapsed>>

\* A sweep asked for by some other caller than this page.
OtherSweep(f, ping) ==
  /\ sweeps < MaxSweeps
  /\ RunSweep(f, ping)
  /\ UNCHANGED clientvars

\* POST /api/check_all is answered without a sweep: a body that is not JSON
\* ("html"), or a JSON object with no ips member ("noips").
ServerFault(r, kind) ==
  /\ reqs[r].pc = "sent"
  /\ reqs' = [reqs EXCEPT ![r].pc = "responded",
                          ![r].body = [kind |-> kind, ips |-> << >>]]
  /\ UNCHANGED <<pageOpen, loaded, hasBody, dashboardBody, btnRefresh, errors, elapsed>>
  /\ UNCHANGED dbvars

\* Line 7: the fetch promise fulfils; line 8 calls resp.json().
FetchResolve(r) ==
  /\ pageOpen /\ reqs[r].pc = "responded"
  /\ reqs' = [reqs EXCEPT ![r].pc = "parsing"]
  /\ UNCHANGED <<pageOpen, loaded, hasBody, dashboardBody, btnRefresh, errors, elapsed>>
  /\ UNCHANGED dbvars

\* Line 7: the fetch promise rejects (a network error); the catch block runs.
FetchReject(r) ==
  /\ pageOpen /\ reqs[r].pc \in {"sent", "responded"}
  /\ reqs' = [reqs EXCEPT ![r].pc = "failed", ![r].promise = "fulfilled"]
  /\ errors' = errors + 1
  /\ dashboardBody' = RowsAfterCatch(dashboardBody)
  /\ UNCHANGED <<pageOpen, loaded, hasBody, btnRefresh, elapsed>>
  /\ UNCHANGED dbvars

\* Line 8: resp.json() rejects (the body is not JSON); the catch block runs.
JsonReject(r) ==
  /\ pageOpen /\ reqs[r].pc = "parsing" /\ reqs[r].body.kind = "html"
  /\ reqs' = [reqs EXCEPT ![r].pc = "failed", ![r].promise = "fulfilled"]
  /\ errors' = errors + 1
  /\ dashboardBody' = RowsAfterCatch(dashboardBody)
  /\ UNCHANGED <<pageOpen, loaded, hasBody, btnRefresh, elapsed>>
  /\ UNCHANGED dbvars

\* Lines 8 to 44: resp.json() fulfils and the table is rebuilt in one task.
JsonResolve(r) ==
  /\ pageOpen /\ reqs[r].pc = "parsing" /\ reqs[r].body.kind # "html"
  /\ IF hasBody
     THEN /\ dashboardBody' = RowsRendered(dashboardBody, IpsOf(reqs[r].body))
          /\ reqs' = [reqs EXCEPT ![r].pc = "rendered", ![r].promise = "fulfilled"]
     ELSE /\ UNCHANGED dashboardBody
          /\ reqs' = [reqs EXCEPT ![r].pc = "returned", ![r].promise = "fulfilled"]
  /\ UNCHANGED <<pageOpen, loaded, hasBody, btnRefresh, errors, elapsed>>
  /\ UNCHANGED dbvars

\* ------------------------------------------------------------ specification

\* The database after the schema script has run on a new file, and the page as
\* the server delivered it, before any listener has run.
Init ==
  /\ ips = SchemaScript({}, 0).rows
  /\ ipSeq = SchemaScript({}, 0).seq
  /\ ping_history = {}
  /\ histSeq = 0
  /\ sweeps = 0
  /\ op = [kind |-> "schema", result |-> "ok"]
  /\ pageOpen = TRUE
  /\ loaded = FALSE
  /\ hasBody \in BOOLEAN
  /\ btnRefresh \in BOOLEAN
  /\ dashboardBody = IF hasBody THEN RenderAll(Projections(ips, {})) ELSE << >>
  /\ reqs = << >>
  /\ errors = 0
  /\ elapsed = 0

NextDB ==
  \/ RunSchema
  \/ \E ip \in Addrs : CreateTarget(ip)
  \/ \E id \in 1..MaxIpId : DeleteTarget(id)
  \/ \E ip_id \in {None} \cup {Some(i) : i \in 1..MaxIpId},
        status \in {"up", "down"}, ping \in Pings :
       AppendRecord(ip_id, status, IF status = "up" THEN Some(ping) ELSE None)
  \/ \E ping \in Pings : \E f \in [Ids(ips) -> Outcomes] : OtherSweep(f, ping)

Next ==
  \/ Load
  \/ Click
  \/ TimerTick
  \/ ClosePage
  \/ TimePasses
  \/ \E r \in 1..Len(reqs), ping \in Pings :
       \E f \in [Ids(ips) -> Outcomes] : ServerSweep(r, f, ping)
  \/ \E r \in 1..Len(reqs), kind \in {"html", "noips"} : ServerFault(r, kind)
  \/ \E r \in 1..Len(reqs) : FetchResolve(r)
  \/ \E r \in 1..Len(reqs) : FetchReject(r)
  \/ \E r \in 1..Len(reqs) : JsonReject(r)
  \/ \E r \in 1..Len(reqs) : JsonResolve(r)

\* The page, its server and the database behind it.
Spec == Init /\ [][Next]_vars

\* The database under the statements run on it, with no page request served.
InitDB == Init /\ hasBody /\ btnRefresh

SpecDB == InitDB /\ [][NextDB]_vars

\* ------------------------------------------------------------------ claims

Resolved(r) == reqs[r].pc \in {"rendered", "returned", "failed"}

\* A table row shows exactly the projection p.
ShowsProjection(row, p) ==
  /\ row.href = p.id /\ row.ip = p.ip
  /\ row.className = (IF p.last_status = "down" THEN "down" ELSE "up")
  /\ row.status = (IF p.last_status = NULL THEN "-" ELSE p.last_status)
  /\ row.pingValue = p.last_ping_ms
  /\ row.text5 = p.last5 /\ row.text60 = p.last60
  /\ row.checkedValue = p.last_checked

\* The table holds one row per projection of list, in list's order.
ShowsList(rows, list) ==
  /\ Len(rows) = Len(list)
  /\ \A i \in 1..Len(list) : ShowsProjection(rows[i], list[i])

\* The data of the page as first delivered, and of each response parsed so far.
InitialData == Projections(SchemaScript({}, 0).rows, {})

ParsedLists ==
  {IpsOf(reqs[r].body) : r \in {q \in 1..Len(reqs) : reqs[q].pc = "rendered"}}

\* C1: at most one sweep request of the page is in flight in every reachable
\* state.
C1_SingleFlight == Cardinality(InFlight) <= 1

\* C2: a step that deletes a target removes exactly the ping_history rows whose
\* ip_id is that target's id and leaves every other row of ping_history as it
\* was, so that no remaining row references the deleted target.
C2_CascadeDelete ==
  [][LET gone == Ids(ips) \ Ids(ips')
     IN  gone # {} =>
           /\ ping_history' = {h \in ping_history : h.ip_id \notin gone}
           /\ \A h \in ping_history' : h.ip_id \in Ids(ips')]_vars

\* A delete has removed the records of one target while records of another stay.
C2_Witness ==
  /\ op.kind = "delete"
  /\ ping_history # {}
  /\ Cardinality(ping_history) < histSeq
  /\ \A h \in ping_history : h.ip_id \in Ids(ips)

\* C3: in every reachable state each ping_history row has a non-null ip_id that
\* is the id of a row now in ips, and an append that is rejected with a
\* constraint error leaves ping_history unchanged; an append naming no existing
\* target is one of those.
EveryRecordOwned ==
  \A h \in ping_history : Some(h.ip_id) # None /\ \E t \in ips : t.id = h.ip_id

C3_RecordsOwned ==
  /\ []EveryRecordOwned
  /\ [][op'.kind = "append" =>
          /\ op'.result = "constraint" => ping_history' = ping_history
          /\ op'.result = "ok" =>
               \E h \in ping_history' :
                 /\ h.ip_id \in Ids(ips)
                 /\ ping_history' = ping_history \cup {h}]_vars

\* An append was rejected after a target had been deleted, with records kept.
C3_Witness ==
  /\ op = [kind |-> "append", result |-> "constraint"]
  /\ ping_history # {}
  /\ \E id \in 1..ipSeq : id \notin Ids(ips)

UniqueAddresses == \A t, u \in ips : t.ip = u.ip => t = u

\* C4 as stated: addresses are unique, and no attempt to create a target whose
\* address exists is silently dropped.
C4_ConflictSurfaced == UniqueAddresses /\ op.result # "ignored"

\* C4 as amended: addresses are unique in every reachable state; creating a
\* target never changes an existing target; a plain INSERT of an existing
\* address is surfaced as a constraint error, while the schema script's INSERT
\* OR IGNORE of a sample address that exists drops it silently.
C4_UniqueAddresses ==
  /\ []UniqueAddresses
  /\ [][/\ op'.kind \in {"create", "schema"} => ips \subseteq ips'
        /\ op'.kind = "create" =>
             (op'.result = "constraint" <=> ips' = ips)
        /\ op'.kind = "schema" =>
             (op'.result = "ignored" <=> Missing(ips) # SampleAddrs)]_vars

\* The script met a sample address that was there, and a registration met an
\* address that was there.
C4_Witness ==
  /\ op = [kind |-> "create", result |-> "constraint"]
  /\ Cardinality(ips) = 3

\* C5: a target with no record has the status unknown (NULL is taken for it),
\* neither up nor down, and is not shown as up by a table fetchAndRender built.
C5_UnknownNotUp ==
  \A t \in ips :
    RecordsOf(ping_history, t.id) = {} =>
      /\ t.last_status \notin {"up", "down"}
      /\ (\E r \in 1..Len(reqs) : reqs[r].pc = "rendered") =>
           \A i \in 1..Len(dashboardBody) :
             dashboardBody[i].href = t.id => dashboardBody[i].className # "up"

\* C6 as stated: every 30-second interval that elapses issues a request,
\* whether a dashboard page is there or not.
C6_TimerAlways == [][elapsed' = elapsed + 1 => Len(reqs') = Len(reqs) + 1]_vars

\* C6 as amended: the page's load issues a request, and while the page is open
\* every 30-second interval that elapses issues a new request whatever became
\* of the earlier ones; with no page open no request is issued.
C6_TimerWhilePageOpen ==
  [][/\ (pageOpen /\ elapsed' = elapsed + 1) =>
          /\ Len(reqs') = Len(reqs) + 1
          /\ reqs'[Len(reqs')].pc = "sent"
          /\ \A r \in 1..Len(reqs) : reqs'[r] = reqs[r]
     /\ (~loaded /\ loaded') => Len(reqs') = Len(reqs) + 1
     /\ ~pageOpen => Len(reqs') = Len(reqs)]_vars

\* Two timer calls (no load, no button): the second was made after the first
\* had failed or while it was pending.
C6_Witness ==
  /\ ~loaded /\ ~btnRefresh /\ pageOpen
  /\ Len(reqs) = 2 /\ elapsed = 2
  /\ reqs[1].pc \in {"failed", "sent"}
  /\ reqs[2].pc = "sent"

\* C7: whenever the table exists, its rows are one row per projection of a
\* single response (or of the page as delivered), in that response's order.
C7_RenderSingleResponse ==
  hasBody => \E list \in {InitialData} \cup ParsedLists :
               ShowsList(dashboardBody, list)

\* Two calls overlapped, with different responses, and one has been rendered.
C7_Witness ==
  /\ hasBody /\ Len(reqs) = 2
  /\ reqs[1].pc = "parsing" /\ reqs[2].pc = "rendered"
  /\ reqs[1].body.kind = "json" /\ reqs[2].body.kind = "json"
  /\ reqs[1].body # reqs[2].body
  /\ dashboardBody # RenderAll(InitialData)

\* C8: a run of the schema script keeps every row of ips with all its fields
\* and every row of ping_history, leaves exactly one target per sample address,
\* and a further run changes nothing.
C8_SchemaIdempotent ==
  [][op'.kind = "schema" =>
       /\ ips \subseteq ips'
       /\ ping_history' = ping_history
       /\ \A a \in SampleAddrs : Cardinality({t \in ips' : t.ip = a}) = 1
       /\ SchemaScript(ips', ipSeq').rows = ips']_vars

\* The script ran on a database where one sample target had been checked and
\* the other had been deleted.
C8_Witness ==
  /\ op = [kind |-> "schema", result |-> "ignored"]
  /\ ipSeq = 3
  /\ \E t \in ips : t.ip \in SampleAddrs /\ t.last_status # NULL
                    /\ RecordsOf(ping_history, t.id) # {}

\* C9: once every call has resolved, each having rendered the projections of
\* its sweep, the table shows the response of the last call made.
C9_NoRegression ==
  (/\ hasBody /\ Len(reqs) > 0
   /\ \A r \in 1..Len(reqs) :
        Resolved(r) /\ reqs[r].pc = "rendered" /\ reqs[r].body.kind = "json")
  => ShowsList(dashboardBody, reqs[Len(reqs)].body.ips)

\* C10: a call whose fetch rejects or whose body is not JSON logs the error,
\* leaves the rows of the table as they were and fulfils its promise.
C10_FailureIsolated ==
  [][\A r \in 1..Len(reqs) :
       (reqs[r].pc # "failed" /\ reqs'[r].pc = "failed") =>
         /\ errors' = errors + 1
         /\ dashboardBody' = dashboardBody
         /\ reqs'[r].promise = "fulfilled"]_vars

\* A call failed with rows on display, and a later call has rendered its
\* response.
C10_Witness ==
  /\ hasBody /\ Len(reqs) = 2 /\ errors = 1
  /\ reqs[1].pc = "failed" /\ reqs[2].pc = "rendered"
  /\ reqs[2].body.kind = "json"
  /\ dashboardBody # << >>
  /\ ShowsList(dashboardBody, reqs[2].body.ips)

====
